---- MODULE Spec2Model ----
(***************************************************************************)
(* The tail-watch session of src/index.ts (handleStream, lines 84-151):    *)
(* fs.watch delivers 'change' notifications to an async callback that      *)
(* stats the file, reads the byte range appended since lastSize through a  *)
(* csv-parse parser, prints every record and then stores the new size.     *)
(* Every invocation of the callback is a run with its own locals; runs     *)
(* suspend at the two `for await` loops and may overlap.                   *)
(***************************************************************************)
EXTENDS Integers, Sequences, FiniteSets, TLC

\* ------------------------------------------------------------------ bounds
MaxAppends == 2      \* writes that append a chunk to the watched file
MaxShrinks == 1      \* writes that truncate the watched file
MaxRuns    == 2      \* invocations of the watch callback in flight at once
MaxPending == 2      \* undelivered 'change' notifications
MaxDeletes == 1      \* times the watched file is deleted

\* ------------------------------------------------------------ file content
NL    == "\n"
Comma == ","

\* The appends of the spec's scenarios 5 and 6, byte by byte.
HeaderAndRow == <<"i", "d", ",", "n", "a", "m", "e", "\n", "1", ",", "A", "n", "n", "\n">>
PartialRow   == <<"2", ",", "B", "o">>
RestOfRow    == <<"b", "\n", "3", ",", "C", "y", "\n">>
Chunks       == {HeaderAndRow, PartialRow, RestOfRow}

\* What the file may hold when watching starts: nothing, or a header line.
InitialFiles == {<< >>, <<"i", "d", ",", "n", "a", "m", "e", "\n">>}

\* Sizes a truncating write may leave behind.
ShrinkSizes == {0, 4}

Min(a, b) == IF a < b THEN a ELSE b

\* ------------------------------------------------------------- csv-parse
\* Positions of separator `sep` in `s`, and the k-th of them in order.
SepPositions(s, sep) == {i \in 1..Len(s) : s[i] = sep}

NthSep(s, sep, k) ==
    CHOOSE i \in SepPositions(s, sep) :
        Cardinality({j \in SepPositions(s, sep) : j < i}) = k - 1

\* `s` split on every `sep`: always at least one (possibly empty) piece.
\* Each piece is [off |-> bytes before it in s, text |-> the piece,
\* term |-> whether a separator followed it].
SplitOn(s, sep) ==
    LET n == Cardinality(SepPositions(s, sep))
        from(k) == IF k = 1 THEN 1 ELSE NthSep(s, sep, k - 1) + 1
        to(k)   == IF k = n + 1 THEN Len(s) ELSE NthSep(s, sep, k) - 1
    IN  [k \in 1..(n + 1) |->
            [off |-> from(k) - 1, text |-> SubSeq(s, from(k), to(k)), term |-> k <= n]]

\* The fields of one line: the line split on the delimiter.
Fields(line) ==
    LET parts == SplitOn(line, Comma)
    IN  [k \in 1..Len(parts) |-> parts[k].text]

\* The records csv-parse builds from a whole input before any length check:
\* one per terminated line, and at end of input one more for a last line
\* that has characters but no terminator (a last line without characters is
\* skipped).
RawRecords(bytes) ==
    LET lines == SplitOn(bytes, NL)
        n     == Len(lines)
        keep  == IF lines[n].text = << >> THEN n - 1 ELSE n
    IN  [k \in 1..keep |->
            [off |-> lines[k].off, len |-> Len(lines[k].text) + (IF lines[k].term THEN 1 ELSE 0),
             fields |-> Fields(lines[k].text), term |-> lines[k].term]]

\* parse({}): the first record sets the expected record length; the first
\* record of another length is an error that ends the parse.
CsvParse(bytes) ==
    LET raw == RawRecords(bytes)
        bad == {k \in 1..Len(raw) : Len(raw[k].fields) # Len(raw[1].fields)}
        ok  == IF bad = {} THEN Len(raw)
               ELSE (CHOOSE k \in bad : \A j \in bad : k <= j) - 1
    IN  [recs |-> SubSeq(raw, 1, ok), err |-> bad # {}]

\* parse({to_line: 1}) over the whole file: the fields of its first line, or
\* nothing when the file has no character.
FirstLineFields(bytes) ==
    IF bytes = << >> THEN << >> ELSE Fields(SplitOn(bytes, NL)[1].text)

\* createReadStream(path, {start, end}): both bounds are inclusive byte
\* indexes; the stream ends early at end of file.
ReadBytes(bytes, start, end) == SubSeq(bytes, start + 1, Min(end + 1, Len(bytes)))

\* ------------------------------------------------------------------ state
VARIABLES
    file,       \* the bytes of the watched file
    pending,    \* 'change' notifications raised by fs.watch, not yet delivered
    lastSize,   \* let lastSize (line 107)
    headers,    \* const headers: string[] (line 108)
    runs,       \* the invocations of the watch callback, by slot
    emitted,    \* what has been printed, in order
    proc,       \* "running"; "exited" once an error has ended the process;
                \* "stopped" once the SIGINT handler has ended it
    initSize,   \* history: the size captured when watching started
    appends,    \* history: number of appending writes so far
    shrinks,    \* history: number of truncating writes so far
    feeds,      \* history: the last two ranges handed to a parser
    seen,       \* history: the size the latest delivered notification saw
    failed,     \* history: an invocation of the callback has thrown
    exists,     \* whether a file is at the watched path
    attached,   \* whether fs.watch still reports what happens at the path
    renames,    \* undelivered 'rename' notifications: for each, in order,
                \* the number of undelivered 'change' ones raised before it
    deletes,    \* history: number of deletions so far
    stopped     \* history: the SIGINT handler has run

vars == <<file, pending, lastSize, headers, runs, emitted, proc,
          initSize, appends, shrinks, feeds, seen, failed,
          exists, attached, renames, deletes, stopped>>

Slots == 1..MaxRuns

\* dup is history: the run's notification saw the size the one before it saw.
IdleRun == [pc |-> "idle", start |-> 0, end |-> 0, read |-> FALSE,
            recs |-> << >>, err |-> FALSE, dup |-> FALSE]

\* lines 107-108, and the watcher of line 110 installed
Init ==
    /\ file \in InitialFiles
    /\ pending = 0
    /\ lastSize = Len(file)
    /\ headers = << >>
    /\ runs = [r \in Slots |-> IdleRun]
    /\ emitted = << >>
    /\ proc = "running"
    /\ initSize = Len(file)
    /\ appends = 0
    /\ shrinks = 0
    /\ feeds = << >>
    /\ seen = -1
    /\ failed = FALSE
    /\ exists = TRUE
    /\ attached = TRUE
    /\ renames = << >>
    /\ deletes = 0
    /\ stopped = FALSE

\* ------------------------------------------------------------ environment
\* fs.watch raises a 'change' notification for a write (k = 1) or folds the
\* write into a notification that is still undelivered (k = 0).
Notified(k) == Min(pending + k, MaxPending)

\* The notification raised last and still undelivered is a 'change' one.
TailIsChange == pending > (IF renames = << >> THEN 0 ELSE renames[Len(renames)])

\* What a write raises: nothing once fs.watch has lost the path.
Raised(k) == IF attached THEN Notified(k) ELSE pending

\* Another program appends a chunk to the file.
AppendWrite(chunk, k) ==
    /\ proc = "running"
    /\ exists
    /\ appends < MaxAppends
    /\ k = 0 => (TailIsChange \/ ~attached)
    /\ k = 1 => attached
    /\ file' = file \o chunk
    /\ pending' = Raised(k)
    /\ appends' = appends + 1
    /\ UNCHANGED <<lastSize, headers, runs, emitted, proc, initSize, shrinks, feeds, seen, failed,
                 exists, attached, renames, deletes, stopped>>

\* Another program truncates the file to `size` bytes.
Shrink(size) ==
    /\ proc = "running"
    /\ exists
    /\ shrinks < MaxShrinks
    /\ size < Len(file)
    /\ file' = SubSeq(file, 1, size)
    /\ pending' = Raised(1)
    /\ shrinks' = shrinks + 1
    /\ UNCHANGED <<lastSize, headers, runs, emitted, proc, initSize, appends, feeds, seen, failed,
                 exists, attached, renames, deletes, stopped>>

\* Another program deletes the file. fs.watch reports a deletion as 'rename'
\* and afterwards keeps reporting what happens at the path or not (stays), as
\* the platform watches paths or files. The deletion is explored in the
\* behaviours that have not truncated the file before it.
Delete(stays) ==
    /\ proc = "running"
    /\ exists
    /\ deletes < MaxDeletes
    /\ shrinks = 0
    /\ exists' = FALSE
    /\ file' = << >>
    /\ deletes' = deletes + 1
    /\ IF attached
       THEN /\ renames' = Append(renames, pending)
            /\ attached' = stays
       ELSE /\ ~stays
            /\ UNCHANGED <<renames, attached>>
    /\ UNCHANGED <<pending, lastSize, headers, runs, emitted, proc, initSize, appends, shrinks,
                   feeds, seen, failed, stopped>>

\* Another program creates an empty file at the path; where fs.watch still
\* follows the path it reports that as 'rename'.
Recreate ==
    /\ proc = "running"
    /\ ~exists
    /\ exists' = TRUE
    /\ file' = << >>
    /\ renames' = IF attached THEN Append(renames, pending) ELSE renames
    /\ UNCHANGED <<pending, lastSize, headers, runs, emitted, proc, initSize, appends,
                   shrinks, feeds, seen, failed, attached, deletes, stopped>>

\* ----------------------------------------------------- the watch callback
FreeSlots == {r \in Slots : runs[r].pc = "idle"}

\* line 115: the range stream starts at the size stored last.
RangeStart == lastSize

\* Notifications are delivered in the order raised: a 'change' one is next
\* unless a 'rename' one was raised before every undelivered 'change' one.
ChangeIsNext == pending > 0 /\ (IF renames = << >> THEN TRUE ELSE renames[1] > 0)
RenameIsNext == renames # << >> /\ renames[1] = 0

\* The 'rename' notifications left once the next 'change' one is delivered.
RenamesAfterChange == [i \in 1..Len(renames) |-> renames[i] - 1]

\* A size equal to the size stored last counts as growth.
GrewOrSame(size) == size >= lastSize

\* line 113: the file has grown beyond the size stored last.
Grew(size) == size > lastSize

\* The header is looked for whatever the size stored last.
NeedsHeaderAnyOffset == Len(headers) = 0

\* line 120: the header is looked for only while none is known and nothing
\* of the file has been consumed.
NeedsHeader == Len(headers) = 0 /\ lastSize = 0

\* lines 110-120: a 'change' notification is delivered; the callback runs
\* up to its first await.
Callback(r) ==
    /\ proc = "running"
    /\ ChangeIsNext
    /\ exists
    /\ r \in FreeSlots /\ \A q \in FreeSlots : r <= q
    /\ pending' = pending - 1
    /\ LET size == Len(file)
       IN  IF Grew(size)
           THEN runs' = [runs EXCEPT ![r] =
                    [pc    |-> IF NeedsHeader THEN "header" ELSE "parse",
                     start |-> RangeStart,
                     end   |-> size,
                     read  |-> FALSE,
                     recs  |-> << >>,
                     err   |-> FALSE,
                     dup   |-> size = seen]]
           ELSE runs' = runs
    /\ seen' = Len(file)
    /\ renames' = RenamesAfterChange
    /\ UNCHANGED <<file, lastSize, headers, emitted, proc, initSize, appends, shrinks, feeds, failed,
                   exists, attached, deletes, stopped>>

\* line 112 with no file at the path: statSync throws out of the callback,
\* and the rejected promise, which nothing handles, ends the process or is
\* only reported, as the runtime is configured.
CallbackThrows(after) ==
    /\ proc = "running"
    /\ ChangeIsNext
    /\ ~exists
    /\ pending' = pending - 1
    /\ renames' = RenamesAfterChange
    /\ failed' = TRUE
    /\ proc' = after
    /\ UNCHANGED <<file, lastSize, headers, runs, emitted, initSize, appends, shrinks, feeds, seen,
                   exists, attached, deletes, stopped>>

\* line 111 with an event other than 'change': the callback does nothing.
RenameCallback ==
    /\ proc = "running"
    /\ RenameIsNext
    /\ renames' = Tail(renames)
    /\ UNCHANGED <<file, pending, lastSize, headers, runs, emitted, proc, initSize, appends,
                   shrinks, feeds, seen, failed, exists, attached, deletes, stopped>>

\* lines 114-118: the range stream delivers its bytes and the parser turns
\* them into records, which wait in the parser until line 129 takes them.
ReadRange(r) ==
    /\ proc = "running"
    /\ exists
    /\ runs[r].pc \in {"header", "parse"}
    /\ ~runs[r].read
    /\ LET bytes  == ReadBytes(file, runs[r].start, runs[r].end)
           parsed == CsvParse(bytes)
       IN  /\ runs' = [runs EXCEPT ![r].read = TRUE,
                                   ![r].recs = [k \in 1..Len(parsed.recs) |->
                                        [pos    |-> runs[r].start + parsed.recs[k].off,
                                         len    |-> parsed.recs[k].len,
                                         fields |-> parsed.recs[k].fields,
                                         term   |-> parsed.recs[k].term]],
                                   ![r].err  = parsed.err]
           /\ feeds' = (IF feeds = << >> THEN << >> ELSE <<feeds[Len(feeds)]>>)
                          \o <<[start |-> runs[r].start, bytes |-> bytes]>>
    /\ UNCHANGED <<file, pending, lastSize, headers, emitted, proc, initSize, appends, shrinks, seen, failed,
                 exists, attached, renames, deletes, stopped>>

\* lines 120-127: the header stream delivers the first line of the file.
ResolveHeader(r) ==
    /\ proc = "running"
    /\ exists
    /\ runs[r].pc = "header"
    /\ headers' = headers \o FirstLineFields(file)
    /\ runs' = [runs EXCEPT ![r].pc = "parse"]
    /\ UNCHANGED <<file, pending, lastSize, emitted, proc, initSize, appends, shrinks, feeds, seen, failed,
                 exists, attached, renames, deletes, stopped>>

\* lines 114 and 121 with no file at the path any more: the stream cannot
\* open the file and emits 'error'; pipe() does not pass the error on and
\* nothing listens for it, so it is thrown as an uncaught exception and ends
\* the process.
StreamFails(r) ==
    /\ proc = "running"
    /\ ~exists
    /\ runs[r].pc = "header" \/ (runs[r].pc = "parse" /\ ~runs[r].read)
    /\ failed' = TRUE
    /\ proc' = "exited"
    /\ UNCHANGED <<file, pending, lastSize, headers, runs, emitted, initSize, appends, shrinks,
                   feeds, seen, exists, attached, renames, deletes, stopped>>

\* One printed record: with the header row of the table (lines 130-136) or
\* as joined fields (line 138).
Printed(rec) == [pos |-> rec.pos, len |-> rec.len, fields |-> rec.fields,
                 term |-> rec.term, head |-> headers]

\* lines 129-140: the loop prints the records of the range.
Emit(r) ==
    /\ proc = "running"
    /\ runs[r].pc = "parse"
    /\ runs[r].read
    /\ ~runs[r].err
    /\ emitted' = emitted \o [k \in 1..Len(runs[r].recs) |-> Printed(runs[r].recs[k])]
    /\ runs' = [runs EXCEPT ![r].pc = "finish", ![r].recs = << >>]
    /\ UNCHANGED <<file, pending, lastSize, headers, proc, initSize, appends, shrinks, feeds, seen, failed,
                 exists, attached, renames, deletes, stopped>>

\* line 129, the parser failed: the loop throws out of the callback. The
\* records parsed before the bad one are printed or are dropped with the
\* destroyed stream, and the rejected promise, which nothing handles, ends
\* the process or is only reported, as the runtime is configured.
EmitThrows(r, delivered, after) ==
    /\ proc = "running"
    /\ runs[r].pc = "parse"
    /\ runs[r].read
    /\ runs[r].err
    /\ emitted' = emitted \o (IF delivered
                              THEN [k \in 1..Len(runs[r].recs) |-> Printed(runs[r].recs[k])]
                              ELSE << >>)
    /\ runs' = [runs EXCEPT ![r] = IdleRun]
    /\ proc' = after
    /\ failed' = TRUE
    /\ UNCHANGED <<file, pending, lastSize, headers, initSize, appends, shrinks, feeds, seen,
                 exists, attached, renames, deletes, stopped>>

\* Finish with the length of the range stored in place of the size seen.
FinishStoresDelta(r) ==
    /\ proc = "running"
    /\ runs[r].pc = "finish"
    /\ lastSize' = runs[r].end - runs[r].start
    /\ runs' = [runs EXCEPT ![r] = IdleRun]
    /\ UNCHANGED <<file, pending, headers, emitted, proc, initSize, appends, shrinks, feeds, seen, failed,
                 exists, attached, renames, deletes, stopped>>

\* line 141: the loop has ended.
Finish(r) ==
    /\ proc = "running"
    /\ runs[r].pc = "finish"
    /\ lastSize' = runs[r].end
    /\ runs' = [runs EXCEPT ![r] = IdleRun]
    /\ UNCHANGED <<file, pending, headers, emitted, proc, initSize, appends, shrinks, feeds, seen, failed,
                 exists, attached, renames, deletes, stopped>>

\* The handler only announces that the session was cancelled.
SigintOnlyAnnounces ==
    /\ proc = "running"
    /\ stopped' = TRUE
    /\ UNCHANGED <<file, pending, lastSize, headers, runs, emitted, proc, initSize, appends, shrinks,
                   feeds, seen, failed, exists, attached, renames, deletes>>

\* lines 146-150: the SIGINT handler closes the watcher and exits the
\* process, whatever the invocations of the callback are doing.
Sigint ==
    /\ proc = "running"
    /\ proc' = "stopped"
    /\ stopped' = TRUE
    /\ UNCHANGED <<file, pending, lastSize, headers, runs, emitted, initSize, appends, shrinks,
                   feeds, seen, failed, exists, attached, renames, deletes>>

Next ==
    \/ \E chunk \in Chunks, k \in 0..1 : AppendWrite(chunk, k)
    \/ \E size \in ShrinkSizes : Shrink(size)
    \/ \E r \in Slots : Callback(r)
    \/ \E r \in Slots : ReadRange(r)
    \/ \E r \in Slots : ResolveHeader(r)
    \/ \E r \in Slots : Emit(r)
    \/ \E r \in Slots, delivered \in BOOLEAN, after \in {"running", "exited"} :
            EmitThrows(r, delivered, after)
    \/ \E r \in Slots : Finish(r)
    \/ \E stays \in BOOLEAN : Delete(stays)
    \/ Recreate
    \/ \E after \in {"running", "exited"} : CallbackThrows(after)
    \/ RenameCallback
    \/ \E r \in Slots : StreamFails(r)
    \/ Sigint

Spec == Init /\ [][Next]_vars

TypeOK ==
    /\ pending \in 0..MaxPending
    /\ lastSize \in Nat
    /\ proc \in {"running", "exited", "stopped"}
    /\ \A i \in 1..Len(renames) : renames[i] \in 0..pending
    /\ \A r \in Slots : runs[r].pc \in {"idle", "header", "parse", "finish"}

\* --------------------------------------------------------------- claims
InFlight == {r \in Slots : runs[r].pc # "idle"}

\* No notification is undelivered and no invocation of the callback is
\* suspended.
Quiescent == pending = 0 /\ InFlight = {}

\* The bytes written since watching started, while the file only grew.
Appended == SubSeq(file, initSize + 1, Len(file))

EmittedFields == [i \in 1..Len(emitted) |-> emitted[i].fields]

RECURSIVE SumLen(_)
SumLen(es) == IF es = << >> THEN 0 ELSE es[1].len + SumLen(Tail(es))

IsComplete(e) == e.term

\* C1: while the file is only appended to and no parse has failed, the
\* records are emitted in strictly increasing byte position (so none twice),
\* and once every notification has been processed each complete record
\* appended since the start has been emitted.
C1_ExactlyOnceInOrder ==
    (shrinks = 0 /\ deletes = 0 /\ ~failed) =>
        /\ \A i, j \in 1..Len(emitted) : i < j => emitted[i].pos < emitted[j].pos
        /\ (Quiescent /\ proc = "running") =>
              \A k \in 1..Len(RawRecords(Appended)) :
                  RawRecords(Appended)[k].term =>
                      \E i \in 1..Len(emitted) :
                          emitted[i].pos = initSize + RawRecords(Appended)[k].off

\* C2: at most one invocation of the watch callback is in flight at any
\* time.
C2_Serialized == Cardinality(InFlight) <= 1

\* C3: every emitted unit is a record whose terminator has been read; an
\* unterminated tail is never emitted.
C3_NoFragmentEmitted == \A i \in 1..Len(emitted) : emitted[i].term

\* C4: when two successive reads are adjacent parts of the file, the records
\* parsed from the first part followed by those parsed from the second are
\* the records parsed from the two parts joined.
FeedRecords(bytes) ==
    LET recs == CsvParse(bytes).recs IN [k \in 1..Len(recs) |-> recs[k].fields]

C4_NoLossReassembly ==
    (/\ deletes = 0
     /\ Len(feeds) = 2
     /\ feeds[1].start + Len(feeds[1].bytes) = feeds[2].start)
        => FeedRecords(feeds[1].bytes) \o FeedRecords(feeds[2].bytes)
              = FeedRecords(feeds[1].bytes \o feeds[2].bytes)

\* C5: lastSize never decreases, and, while the file is only appended to
\* and no parse has failed, once every notification has been processed
\* lastSize has advanced from its
\* initial value by exactly the bytes of the complete records emitted.
C5_OffsetMonotone ==
    /\ [][lastSize' >= lastSize]_vars
    /\ []((shrinks = 0 /\ deletes = 0 /\ ~failed /\ Quiescent) =>
             lastSize = initSize + SumLen(SelectSeq(emitted, IsComplete)))

\* A step that delivers a notification to the watch callback.
Delivered == pending' = pending - 1

\* C6: a notification that sees the file size the notification before it saw
\* produces no emitted record, also when the earlier one is still being
\* processed: the emit loop of such an invocation, when it runs to its end,
\* emits nothing.
C6_IdempotentRenotify ==
    [][\A r \in Slots :
          (runs[r].dup /\ runs[r].pc = "parse" /\ runs'[r].pc = "finish")
              => emitted' = emitted]_vars

\* C7: a notification that sees a file smaller than lastSize resets lastSize
\* to 0 and clears the header fields.
C7_ShrinkResets ==
    [][(Delivered /\ exists /\ Len(file) < lastSize)
          => (lastSize' = 0 /\ headers' = << >>)]_vars

\* C8: the size of the file at the start is the first lastSize, and no range
\* read and no record emitted begins below that initial size.
C8_NoReplay ==
    /\ (appends = 0 /\ shrinks = 0 /\ deletes = 0) => lastSize = Len(file)
    /\ lastSize >= initSize
    /\ \A r \in InFlight : runs[r].start >= initSize
    /\ \A i \in 1..Len(emitted) : emitted[i].pos >= initSize

\* A session that started on a file with content has emitted a record.
C8_Witness == initSize > 0 /\ emitted # << >>

\* C9: after the single append id,name\n1,Ann\n to a file watched from
\* empty has been processed, the header is ["id","name"], exactly the row
\* ["1","Ann"] has been emitted (the header line is no row) and lastSize is
\* the size of the append. The scenario counts 13 bytes and the append has
\* Len(HeaderAndRow) = 14; either value is accepted for lastSize here, so
\* that the statement is decided by the rows emitted.
IdName == << <<"i", "d">>, <<"n", "a", "m", "e">> >>
AnnRow == << <<"1">>, <<"A", "n", "n">> >>

C9_HeaderThenOneRow ==
    (/\ initSize = 0 /\ appends = 1 /\ shrinks = 0 /\ deletes = 0
     /\ file = HeaderAndRow
     /\ Quiescent)
        => /\ headers = IdName
           /\ EmittedFields = <<AnnRow>>
           /\ lastSize \in {13, Len(HeaderAndRow)}

\* C10: the header fields are set at most once, and only in a session that
\* started on an empty file.
C10_HeaderResolvedOnce ==
    /\ [][headers # << >> => headers' = headers]_vars
    /\ [](headers # << >> => initSize = 0)

\* C11: a session that started on a file with content never resolves header
\* fields, in any reachable state, and prints every record as its positional
\* fields, with no header row.
C11_NoHeaderAfterContent ==
    initSize > 0 => /\ headers = << >>
                    /\ \A i \in 1..Len(emitted) : emitted[i].head = << >>

\* A session that started on a file with content has printed two records.
C11_Witness == initSize > 0 /\ Len(emitted) >= 2

\* The file has been deleted and every 'rename' notification raised since
\* has been delivered to the callback.
RemovalDelivered == deletes > 0 /\ renames = << >>

\* C12: once the deletion of the file has been notified the session is over
\* and consumes no further notification: none starts the processing of a
\* range, which is what prints records, even if a file is created again at
\* the path and grows.
C12_RemovedIsTerminal ==
    [][RemovalDelivered =>
          \A r \in Slots : runs[r].pc = "idle" => runs'[r].pc = "idle"]_vars

\* C13: when the parser has rejected a record of a range, the processing of
\* that range ends with the session still watching and lastSize advanced
\* beyond the start of the range, so the bad record is not read again.
C13_BadRecordSkipped ==
    [][\A r \in Slots :
          (runs[r].pc = "parse" /\ runs[r].err /\ runs'[r].pc = "idle")
              => (proc' = "running" /\ lastSize' > runs[r].start)]_vars

\* C14: when the stat of a 'change' notification fails because the file is
\* not there, the failure stays inside the session: the session keeps
\* watching and nothing is thrown out of the callback.
C14_StatFailureContained ==
    [][(Delivered /\ ~exists) => (proc' = "running" /\ ~failed')]_vars

\* C15: once the interrupt has been handled no callback runs any more,
\* for a 'change' or for a 'rename' notification, no invocation in flight
\* goes on, and no record is printed.
C15_NothingAfterStop ==
    [][stopped => /\ pending' = pending
                  /\ renames' = renames
                  /\ runs' = runs
                  /\ emitted' = emitted
                  /\ lastSize' = lastSize]_vars

\* The interrupt was handled with a notification undelivered and an
\* invocation of the callback holding records it has not printed.
C15_Witness ==
    /\ stopped
    /\ pending > 0
    /\ \E r \in Slots : runs[r].pc = "parse" /\ runs[r].recs # << >>

\* C16: the read of a range delivers bytes of [start, end) only, end being
\* the size the stat saw: never more than end - start bytes, whatever is
\* appended between the stat and the read.
C16_HalfOpenRange ==
    [][\A r \in Slots :
          (~runs[r].read /\ runs'[r].read)
              => /\ feeds'[Len(feeds')].start = runs[r].start
                 /\ Len(feeds'[Len(feeds')].bytes) <= runs[r].end - runs[r].start]_vars

\* C17: while an invocation of the callback has started on a range and has
\* not printed all its records, lastSize is still the value the invocation
\* started from.
C17_OffsetHeldWhileEmitting ==
    \A r \in Slots : runs[r].pc \in {"header", "parse"} => lastSize = runs[r].start

\* C18: the interrupt takes effect between events only: when the session
\* has stopped, no invocation of the callback is left part-way through its
\* read or its printing.
C18_StopBetweenEvents == stopped => InFlight = {}

\* The callback has been given a 'rename' notification.
RenameDelivered == Len(renames') < Len(renames)

\* C19: a notification that is not 'change', and a 'change' notification
\* whose stat sees a size not greater than lastSize, change neither lastSize
\* nor the header fields, print nothing and start no processing of a range.
C19_NoEffectWithoutGrowth ==
    [][(RenameDelivered \/ (Delivered /\ exists /\ Len(file) <= lastSize))
          => /\ lastSize' = lastSize
             /\ headers' = headers
             /\ emitted' = emitted
             /\ runs' = runs]_vars

\* Both cases have happened in a session that has consumed nothing: the
\* 'rename' notifications of a deletion were delivered, and the stat of the
\* last 'change' notification saw a size not above the size stored at the
\* start, which is still the size stored.
C19_Witness ==
    /\ RemovalDelivered
    /\ exists
    /\ seen # -1
    /\ seen <= lastSize
    /\ lastSize = initSize

====
